---- MODULE Spec2Model ----
(***************************************************************************)
(* Model of pixi's GroupedEnvironment (src/workspace/grouped_environment.rs)*)
(* and of the `pixi install` command (src/cli/install.rs).                  *)
(*                                                                          *)
(* A workspace is a read-only value: a sequence of environments in declared *)
(* order and a sequence of solve groups.  An Environment handle is an index *)
(* into the first, a SolveGroup handle an index into the second; equality   *)
(* of handles is equality of indices.  Names are strings.                   *)
(***************************************************************************)
EXTENDS Integers, Sequences, FiniteSets, TLC

VARIABLES workspace,     \* the loaded workspace
          op,            \* the last GroupedEnvironment operation applied
          input,         \* its argument
          output,        \* its result
          origin,        \* the value whose name() is being looked up again
          pc,            \* position of execute()
          args,          \* Args of execute()
          envs,          \* install.rs:63  the selected names
          environments,  \* install.rs:76  the resolved environments
          updateCalls,   \* the argument of every call of the update operation
          updateResult,  \* what the update operation returned
          reported,      \* the "installed" messages printed
          result         \* what execute() returned

vars == <<workspace, op, input, output, origin, pc, args, envs, environments,
          updateCalls, updateResult, reported, result>>

geVars == <<op, input, output, origin>>
installVars == <<pc, args, envs, environments, updateCalls, updateResult,
                 reported, result>>

----------------------------------------------------------------------------
(* Bounds *)

MaxEnvs == 3
MaxReqEnvs == 2
MaxVersion == 2
MaxSelected == 2

----------------------------------------------------------------------------
(* The workspace layer (manifest): environments, solve groups, lookups *)

EnvNamePool == <<"default", "dev", "prod", "test", "docs", "lint">>
GroupNames == {"default", "shared"}
NoGroup == ""
UnknownName == "missing"

Max(a, b) == IF a >= b THEN a ELSE b

\* SystemRequirements: one minimum version per dimension, 0 meaning unset.
DefaultRequirements == [macos |-> 0, cuda |-> 0]
Requirements(maxVersion) == [macos : 0..maxVersion, cuda : 0..maxVersion]

\* Solve groups exist in the order in which the environments first name them.
RECURSIVE GroupOrder(_, _)
GroupOrder(assign, k) ==
    IF k = 0 THEN <<>>
    ELSE LET prev == GroupOrder(assign, k - 1)
         IN  IF assign[k] = NoGroup \/ \E j \in 1..Len(prev) : prev[j] = assign[k]
             THEN prev
             ELSE Append(prev, assign[k])

IndexOf(seq, x) ==
    IF \E j \in 1..Len(seq) : seq[j] = x
    THEN CHOOSE j \in 1..Len(seq) : seq[j] = x
    ELSE 0

RECURSIVE MembersUpTo(_, _, _)
MembersUpTo(assign, g, k) ==
    IF k = 0 THEN <<>>
    ELSE IF assign[k] = g THEN Append(MembersUpTo(assign, g, k - 1), k)
         ELSE MembersUpTo(assign, g, k - 1)

\* The workspace with n environments, environment i declaring solve group
\* assign[i] (or none) and system requirements reqs[i].
BuildWorkspace(n, assign, reqs) ==
    LET order == GroupOrder(assign, n)
    IN  [environments |->
            [i \in 1..n |-> [name |-> EnvNamePool[i],
                             solve_group |-> IndexOf(order, assign[i]),
                             system_requirements |-> reqs[i]]],
         solve_groups |->
            [j \in 1..Len(order) |-> [name |-> order[j],
                                      environments |-> MembersUpTo(assign, order[j], n)]]]

EnvironmentHandles(ws) == 1..Len(ws.environments)
SolveGroupHandles(ws) == 1..Len(ws.solve_groups)

\* Workspace::environment(name), Workspace::solve_group(name): 0 is None.
WorkspaceEnvironment(ws, n) ==
    IF \E e \in EnvironmentHandles(ws) : ws.environments[e].name = n
    THEN CHOOSE e \in EnvironmentHandles(ws) : ws.environments[e].name = n
    ELSE 0

WorkspaceSolveGroup(ws, n) ==
    IF \E g \in SolveGroupHandles(ws) : ws.solve_groups[g].name = n
    THEN CHOOSE g \in SolveGroupHandles(ws) : ws.solve_groups[g].name = n
    ELSE 0

\* Workspace::default_environment()
DefaultEnvironment(ws) == WorkspaceEnvironment(ws, "default")

\* SolveGroup::environments(), Environment::solve_group()
SolveGroupEnvironments(ws, g) == ws.solve_groups[g].environments
EnvironmentSolveGroup(ws, e) == ws.environments[e].solve_group

\* SystemRequirements::union: per dimension the larger minimum, unset (0)
\* never loosening a set one.
RequirementsUnion(a, b) ==
    [macos |-> Max(a.macos, b.macos), cuda |-> Max(a.cuda, b.cuda)]

RECURSIVE FoldRequirements(_, _)
FoldRequirements(ws, members) ==
    IF members = <<>> THEN DefaultRequirements
    ELSE RequirementsUnion(
             FoldRequirements(ws, SubSeq(members, 1, Len(members) - 1)),
             ws.environments[members[Len(members)]].system_requirements)

\* SolveGroup::system_requirements(), Environment::system_requirements()
SolveGroupSystemRequirements(ws, g) ==
    FoldRequirements(ws, SolveGroupEnvironments(ws, g))
EnvironmentSystemRequirements(ws, e) == ws.environments[e].system_requirements

----------------------------------------------------------------------------
(* GroupedEnvironment *)

Group(g) == [variant |-> "Group", idx |-> g]
Environment(e) == [variant |-> "Environment", idx |-> e]
None == [variant |-> "None", idx |-> 0]
Unreachable == [variant |-> "Panic", idx |-> 0]

GroupName(s) == [variant |-> "Group", name |-> s]
EnvironmentName(s) == [variant |-> "Environment", name |-> s]

\* impl From<SolveGroup> for GroupedEnvironment
FromSolveGroupAlwaysGroup(ws, source) == Group(source)

FromSolveGroup(ws, source) ==
    LET members == SolveGroupEnvironments(ws, source)
        first == IF Len(members) >= 1 THEN members[1] ELSE 0
        second == IF Len(members) >= 2 THEN members[2] ELSE 0
    IN  IF second # 0 THEN Group(source)
        ELSE IF first # 0 THEN Environment(first)
        ELSE Unreachable

\* impl From<Environment> for GroupedEnvironment
FromEnvironmentAnyGroup(ws, source) ==
    LET group == EnvironmentSolveGroup(ws, source)
    IN  IF group # 0 THEN Group(group) ELSE Environment(source)

FromEnvironmentNeverGroup(ws, source) == Environment(source)

FromEnvironmentOffByOne(ws, source) ==
    LET group == EnvironmentSolveGroup(ws, source)
    IN  IF group # 0 /\ Len(SolveGroupEnvironments(ws, group)) > 2
        THEN Group(group)
        ELSE Environment(source)

FromEnvironment(ws, source) ==
    LET group == EnvironmentSolveGroup(ws, source)
    IN  IF group # 0 /\ Len(SolveGroupEnvironments(ws, group)) > 1
        THEN Group(group)
        ELSE Environment(source)

\* GroupedEnvironment::environments
GroupedEnvironments(ws, v) ==
    IF v.variant = "Group" THEN SolveGroupEnvironments(ws, v.idx) ELSE <<v.idx>>

\* GroupedEnvironment::from_name
FromNameAnyKind(ws, n) ==
    LET g == WorkspaceSolveGroup(ws, n.name)
        e == WorkspaceEnvironment(ws, n.name)
    IN  IF n.variant = "Group"
        THEN IF g # 0 THEN Group(g) ELSE IF e # 0 THEN Environment(e) ELSE None
        ELSE IF e # 0 THEN Environment(e) ELSE None

from_name(ws, n) ==
    IF n.variant = "Group"
    THEN LET g == WorkspaceSolveGroup(ws, n.name)
         IN  IF g = 0 THEN None ELSE Group(g)
    ELSE LET e == WorkspaceEnvironment(ws, n.name)
         IN  IF e = 0 THEN None ELSE Environment(e)

\* GroupedEnvironment::name
NameAsEnvironment(ws, v) ==
    IF v.variant = "Group"
    THEN EnvironmentName(ws.solve_groups[v.idx].name)
    ELSE EnvironmentName(ws.environments[v.idx].name)

name(ws, v) ==
    IF v.variant = "Group"
    THEN GroupName(ws.solve_groups[v.idx].name)
    ELSE EnvironmentName(ws.environments[v.idx].name)

\* GroupedEnvironment::system_requirements
SystemRequirementsOfFirstMember(ws, v) ==
    IF v.variant = "Group"
    THEN EnvironmentSystemRequirements(ws, SolveGroupEnvironments(ws, v.idx)[1])
    ELSE EnvironmentSystemRequirements(ws, v.idx)

system_requirements(ws, v) ==
    IF v.variant = "Group"
    THEN SolveGroupSystemRequirements(ws, v.idx)
    ELSE EnvironmentSystemRequirements(ws, v.idx)

----------------------------------------------------------------------------
(* Initial states *)

NoArgs == [environment |-> [some |-> FALSE, names |-> <<>>], all |-> FALSE]

InitRest ==
    /\ op = "none" /\ input = None /\ output = None /\ origin = None
    /\ pc = "start" /\ args = NoArgs /\ envs = <<>> /\ environments = <<>>
    /\ updateCalls = <<>> /\ updateResult = "none" /\ reported = <<>>
    /\ result = "none"

\* A loaded workspace of at most maxEnvs environments, each in no solve group
\* or in one of GroupNames, with system requirements up to maxVersion.
LoadedWorkspace(maxEnvs, maxVersion) ==
    \E n \in 1..maxEnvs :
       \E assign \in [1..n -> GroupNames \cup {NoGroup}] :
          \E reqs \in [1..n -> Requirements(maxVersion)] :
             workspace = BuildWorkspace(n, assign, reqs)

Init == LoadedWorkspace(MaxEnvs, 0) /\ InitRest

InitReq == LoadedWorkspace(MaxReqEnvs, MaxVersion) /\ InitRest

----------------------------------------------------------------------------
(* Operations on GroupedEnvironment *)

IsValue(v) == v.variant \in {"Group", "Environment"}

LookupNames ==
    { EnvNamePool[i] : i \in 1..MaxEnvs } \cup GroupNames \cup {UnknownName}

GroupedEnvironmentNames ==
    { GroupName(s) : s \in LookupNames } \cup { EnvironmentName(s) : s \in LookupNames }

\* GroupedEnvironment::from(solve_group)
ConstructFromSolveGroup ==
    /\ \E g \in SolveGroupHandles(workspace) :
          /\ op' = "from_solve_group"
          /\ input' = g
          /\ output' = FromSolveGroup(workspace, g)
    /\ origin' = None
    /\ UNCHANGED <<workspace, installVars>>

\* GroupedEnvironment::from(environment)
ConstructFromEnvironment ==
    /\ \E e \in EnvironmentHandles(workspace) :
          /\ op' = "from_environment"
          /\ input' = e
          /\ output' = FromEnvironment(workspace, e)
    /\ origin' = None
    /\ UNCHANGED <<workspace, installVars>>

\* GroupedEnvironment::from_name(workspace, name) for any name
FromName ==
    /\ \E n \in GroupedEnvironmentNames :
          /\ op' = "from_name"
          /\ input' = n
          /\ output' = from_name(workspace, n)
    /\ origin' = None
    /\ UNCHANGED <<workspace, installVars>>

\* value.name() of the value just constructed
TakeName ==
    /\ op \in {"from_solve_group", "from_environment", "from_name"}
    /\ IsValue(output)
    /\ op' = "name"
    /\ input' = output
    /\ output' = name(workspace, output)
    /\ origin' = output
    /\ UNCHANGED <<workspace, installVars>>

\* GroupedEnvironment::from_name(workspace, value.name())
FromNameOfName ==
    /\ op = "name"
    /\ op' = "from_name"
    /\ input' = output
    /\ output' = from_name(workspace, output)
    /\ origin' = origin
    /\ UNCHANGED <<workspace, installVars>>

\* GroupedEnvironment::from(solve_group) beside GroupedEnvironment::from(member)
\* for a member of that solve group
CompareConstructions ==
    /\ \E g \in SolveGroupHandles(workspace) :
          \E k \in 1..Len(SolveGroupEnvironments(workspace, g)) :
             LET e == SolveGroupEnvironments(workspace, g)[k]
             IN  /\ op' = "from_both"
                 /\ input' = <<g, e>>
                 /\ output' = <<FromSolveGroup(workspace, g), FromEnvironment(workspace, e)>>
    /\ origin' = None
    /\ UNCHANGED <<workspace, installVars>>

\* Resolution units of a selection: the set (derive Hash, Eq) of the
\* GroupedEnvironment of every selected environment.
ResolutionUnits(ws, selection) == { FromEnvironment(ws, e) : e \in selection }

Deduplicate ==
    /\ \E selection \in SUBSET EnvironmentHandles(workspace) :
          /\ op' = "dedup"
          /\ input' = selection
          /\ output' = ResolutionUnits(workspace, selection)
    /\ origin' = None
    /\ UNCHANGED <<workspace, installVars>>

\* The values any construction path yields in a workspace.
ConstructibleValues(ws) ==
    { FromSolveGroup(ws, g) : g \in SolveGroupHandles(ws) }
    \cup { FromEnvironment(ws, e) : e \in EnvironmentHandles(ws) }
    \cup { v \in { from_name(ws, n) : n \in GroupedEnvironmentNames } : IsValue(v) }

\* value.system_requirements()
SystemRequirements ==
    /\ \E v \in ConstructibleValues(workspace) :
          /\ op' = "system_requirements"
          /\ input' = v
          /\ output' = system_requirements(workspace, v)
    /\ origin' = None
    /\ UNCHANGED <<workspace, installVars>>

Next ==
    \/ ConstructFromSolveGroup
    \/ ConstructFromEnvironment
    \/ FromName
    \/ TakeName
    \/ FromNameOfName
    \/ CompareConstructions
    \/ Deduplicate

Spec == Init /\ [][Next]_vars

NextReq == SystemRequirements

SpecReq == InitReq /\ [][NextReq]_vars

----------------------------------------------------------------------------
(* pixi install: execute(args) *)

RECURSIVE SeqsUpTo(_, _)
SeqsUpTo(S, k) ==
    IF k = 0 THEN { <<>> }
    ELSE LET shorter == SeqsUpTo(S, k - 1)
         IN  shorter \cup { Append(q, x) : q \in { r \in shorter : Len(r) = k - 1 }, x \in S }

ArgNames == { EnvNamePool[i] : i \in 1..MaxEnvs } \cup {UnknownName}

\* Args { environment: Option<Vec<String>>, all: bool }
ArgsSet ==
    { [environment |-> e, all |-> a] :
        e \in {[some |-> FALSE, names |-> <<>>]}
              \cup { [some |-> TRUE, names |-> q] : q \in SeqsUpTo(ArgNames, MaxSelected) },
        a \in BOOLEAN }

\* Workspace::environments() mapped to their names, in declared order
AllEnvironmentNames(ws) ==
    [i \in 1..Len(ws.environments) |-> ws.environments[i].name]

\* Workspace::environment_from_name_or_env_var(Some(name)): 0 is Err
environment_from_name_or_env_var(ws, n) == WorkspaceEnvironment(ws, n)

\* install.rs:63-73
SelectedNamesAllFirst(ws, a) ==
    IF a.all THEN AllEnvironmentNames(ws)
    ELSE IF a.environment.some THEN a.environment.names
    ELSE << ws.environments[DefaultEnvironment(ws)].name >>

SelectedNames(ws, a) ==
    IF a.environment.some THEN a.environment.names
    ELSE IF a.all THEN AllEnvironmentNames(ws)
    ELSE << ws.environments[DefaultEnvironment(ws)].name >>

\* install.rs:94-97
InstalledEnvs(ws, resolved) ==
    [i \in 1..Len(resolved) |-> ws.environments[resolved[i]].name]

\* install.rs:53-56, the workspace is found
Locate ==
    /\ pc = "start"
    /\ \E a \in ArgsSet : args' = a
    /\ pc' = "select"
    /\ UNCHANGED <<workspace, geVars, envs, environments, updateCalls,
                   updateResult, reported, result>>

\* install.rs:55, locate()? fails
LocateFails ==
    /\ pc = "start"
    /\ \E a \in ArgsSet : args' = a
    /\ pc' = "locate_failed"
    /\ result' = "err"
    /\ UNCHANGED <<workspace, geVars, envs, environments, updateCalls,
                   updateResult, reported>>

\* install.rs:63-73
Select ==
    /\ pc = "select"
    /\ envs' = SelectedNames(workspace, args)
    /\ pc' = "resolve"
    /\ UNCHANGED <<workspace, geVars, args, environments, updateCalls,
                   updateResult, reported, result>>

\* install.rs:76-79, one item of the collect::<Result<Vec<_>, _>>()?
ResolveNextIgnoringErrors ==
    /\ pc = "resolve"
    /\ Len(environments) < Len(envs)
    /\ LET e == environment_from_name_or_env_var(workspace, envs[Len(environments) + 1])
       IN  /\ environments' = Append(environments, IF e = 0 THEN 1 ELSE e)
           /\ UNCHANGED <<pc, result>>
    /\ UNCHANGED <<workspace, geVars, args, envs, updateCalls, updateResult, reported>>

ResolveNext ==
    /\ pc = "resolve"
    /\ Len(environments) < Len(envs)
    /\ LET e == environment_from_name_or_env_var(workspace, envs[Len(environments) + 1])
       IN  IF e = 0
           THEN /\ pc' = "resolve_failed"
                /\ result' = "err"
                /\ UNCHANGED environments
           ELSE /\ environments' = Append(environments, e)
                /\ UNCHANGED <<pc, result>>
    /\ UNCHANGED <<workspace, geVars, args, envs, updateCalls, updateResult, reported>>

\* install.rs:86, args.lock_file_usage.try_into()? succeeds or fails
BuildOptions ==
    /\ pc = "resolve"
    /\ Len(environments) = Len(envs)
    /\ \/ /\ pc' = "update"
          /\ UNCHANGED result
       \/ /\ pc' = "options_failed"
          /\ result' = "err"
    /\ UNCHANGED <<workspace, geVars, args, envs, environments, updateCalls,
                   updateResult, reported>>

\* install.rs:82-91, get_update_lock_file_and_prefixes(&environments, ...)
InvokeUpdate ==
    /\ pc = "update"
    /\ updateCalls' = Append(updateCalls, environments)
    /\ pc' = "updating"
    /\ UNCHANGED <<workspace, geVars, args, envs, environments, updateResult,
                   reported, result>>

\* install.rs:92, .await? returns Ok or Err
UpdateReturns ==
    /\ pc = "updating"
    /\ \/ /\ updateResult' = "ok"
          /\ pc' = "report"
          /\ UNCHANGED result
       \/ /\ updateResult' = "err"
          /\ pc' = "update_failed"
          /\ result' = "err"
    /\ UNCHANGED <<workspace, geVars, args, envs, environments, updateCalls, reported>>

\* install.rs:94-123
Report ==
    /\ pc = "report"
    /\ LET installed_envs == InstalledEnvs(workspace, environments)
       IN  reported' = Append(reported, [names |-> installed_envs,
                                         single |-> Len(installed_envs) = 1])
    /\ pc' = "done"
    /\ result' = "ok"
    /\ UNCHANGED <<workspace, geVars, args, envs, environments, updateCalls, updateResult>>

NextInstall ==
    \/ Locate
    \/ LocateFails
    \/ Select
    \/ ResolveNext
    \/ BuildOptions
    \/ InvokeUpdate
    \/ UpdateReturns
    \/ Report

SpecInstall == Init /\ [][NextInstall]_vars

----------------------------------------------------------------------------
(* Properties of GroupedEnvironment, checked under Spec *)

Members(g) == workspace.solve_groups[g].environments
BackReference(e) == workspace.environments[e].solve_group
InMultiMemberGroup(e) == BackReference(e) # 0 /\ Len(Members(BackReference(e))) > 1

\* Every member of a solve group points back to that group, and no
\* environment points to a group that does not list it.
BackReferenceInvariant ==
    /\ \A g \in SolveGroupHandles(workspace) :
          \A k \in 1..Len(Members(g)) : BackReference(Members(g)[k]) = g
    /\ \A e \in EnvironmentHandles(workspace) :
          BackReference(e) # 0 =>
             \E k \in 1..Len(Members(BackReference(e))) : Members(BackReference(e))[k] = e

\* C1: canonical form on every construction path: a value obtained from
\* From<SolveGroup>, From<Environment> or from_name that is the Group variant
\* wraps a solve group with strictly more than one member.
C1_CanonicalFormEveryPath ==
    (op \in {"from_solve_group", "from_environment", "from_name"}
        /\ output.variant = "Group")
    => Len(Members(output.idx)) > 1

\* C2: collapse correctness of From<SolveGroup>: a non-empty solve group with
\* two or more members yields Group of it, one with exactly one member yields
\* Environment of that sole member, and nothing else is produced.
C2_CollapseCorrectness ==
    (op = "from_solve_group" /\ Len(Members(input)) >= 1)
    => /\ Len(Members(input)) >= 2 => output = Group(input)
       /\ Len(Members(input)) = 1 => output = Environment(Members(input)[1])
       /\ output \in {Group(input), Environment(Members(input)[1])}

C2_Witness ==
    /\ op = "from_solve_group"
    /\ Len(Members(input)) = 1
    /\ output = Environment(Members(input)[1])
    /\ Members(input)[1] # 1

\* C3: From<Environment> yields Group(g) exactly when the environment has a
\* solve-group back-reference g with more than one member, and in every other
\* case yields Environment of the environment itself.
C3_FromEnvironmentRule ==
    op = "from_environment"
    => /\ InMultiMemberGroup(input) => output = Group(BackReference(input))
       /\ ~InMultiMemberGroup(input) => output = Environment(input)
       /\ output.variant = "Group" <=> InMultiMemberGroup(input)

C3_Witness ==
    /\ op = "from_environment"
    /\ BackReference(input) # 0
    /\ Len(Members(BackReference(input))) = 1
    /\ output = Environment(input)

\* C4: deduplication of resolution units: in a workspace satisfying the
\* back-reference invariant, two selected environments map to equal values
\* exactly when they are the same environment or share a multi-member solve
\* group, so the number of units is the number of multi-member groups touched
\* plus the number of selected environments in no multi-member group; for
\* {default ungrouped; dev, prod in shared} and the selection of all three
\* the units are Environment(default) and Group(shared).
C4_Deduplication ==
    (op = "dedup" /\ BackReferenceInvariant)
    => /\ \A a \in input : \A b \in input :
             (FromEnvironment(workspace, a) = FromEnvironment(workspace, b))
             <=> (a = b \/ (InMultiMemberGroup(a) /\ InMultiMemberGroup(b)
                            /\ BackReference(a) = BackReference(b)))
       /\ \A a \in input : FromEnvironment(workspace, a) \in output
       /\ Cardinality(output)
             = Cardinality({ BackReference(e) : e \in { x \in input : InMultiMemberGroup(x) } })
               + Cardinality({ e \in input : ~InMultiMemberGroup(e) })
       /\ ( /\ Len(workspace.environments) = 3
            /\ BackReference(1) = 0 /\ BackReference(2) # 0
            /\ BackReference(3) = BackReference(2)
            /\ input = {1, 2, 3} )
          => /\ Cardinality(output) = 2
             /\ output = {Environment(1), Group(BackReference(2))}

C4_Witness ==
    /\ op = "dedup"
    /\ Len(workspace.environments) = 3
    /\ workspace.environments[1].name = "default" /\ BackReference(1) = 0
    /\ workspace.environments[2].name = "dev" /\ workspace.environments[3].name = "prod"
    /\ BackReference(2) # 0 /\ BackReference(3) = BackReference(2)
    /\ workspace.solve_groups[BackReference(2)].name = "shared"
    /\ input = {1, 2, 3}
    /\ Cardinality(output) = 2

\* C5: round trip of identity: from_name(workspace, v.name()) is present and
\* equal to the constructed value v.
C5_RoundTrip ==
    (op = "from_name" /\ origin # None)
    => (output # None /\ output = origin)

C5_Witness ==
    /\ op = "from_name"
    /\ origin.variant = "Group"
    /\ workspace.solve_groups[origin.idx].name = "default"
    /\ output = origin

\* C6: canonicalization idempotence: for a solve group with exactly one
\* member, the value constructed from the group and the value constructed
\* from that member are equal, both Environment of the member.
C6_CanonicalizationIdempotence ==
    (op = "from_both" /\ Len(Members(input[1])) = 1)
    => /\ output[1] = output[2]
       /\ output[1] = Environment(input[2])

C6_Witness ==
    /\ op = "from_both"
    /\ Len(Members(input[1])) = 1
    /\ output[1] = output[2]
    /\ output[2].variant = "Environment"

\* C9: a name-lookup miss is a value: from_name is absent exactly when the
\* workspace has no solve group of that name (Group name) or no environment
\* of that name (Environment name), never faults, and a present result has
\* the variant of the name and carries that name.
C9_LookupMiss ==
    op = "from_name"
    => /\ output.variant # "Panic"
       /\ input.variant = "Group" =>
             /\ output = None <=>
                   ~\E g \in SolveGroupHandles(workspace) :
                        workspace.solve_groups[g].name = input.name
             /\ output # None =>
                   /\ output.variant = "Group"
                   /\ workspace.solve_groups[output.idx].name = input.name
       /\ input.variant = "Environment" =>
             /\ output = None <=>
                   ~\E e \in EnvironmentHandles(workspace) :
                        workspace.environments[e].name = input.name
             /\ output # None =>
                   /\ output.variant = "Environment"
                   /\ workspace.environments[output.idx].name = input.name

C9_Witness ==
    /\ op = "from_name"
    /\ input = GroupName("default")
    /\ \E e \in EnvironmentHandles(workspace) : workspace.environments[e].name = "default"
    /\ workspace.solve_groups # <<>>
    /\ output = None

----------------------------------------------------------------------------
(* Properties of system_requirements, checked under SpecReq *)

MaxOf(S) == CHOOSE m \in S : \A x \in S : m >= x

MemberRequirements(g) ==
    { workspace.environments[Members(g)[k]].system_requirements : k \in 1..Len(Members(g)) }

Reorderings(members) ==
    { [i \in 1..Len(members) |-> members[p[i]]] : p \in Permutations(1..Len(members)) }

----------------------------------------------------------------------------
(* Properties of execute, checked under SpecInstall *)

Selected == pc \notin {"start", "locate_failed", "select"}

Resolvable(n) ==
    \E e \in EnvironmentHandles(workspace) : workspace.environments[e].name = n

\* C7: the names handed to resolution are the explicit names as given
\* (whatever the all flag), else with all every environment name in declared
\* order, else the default environment's name alone; the environments passed
\* to the update operation match that list in length and order.
C7_SelectionRule ==
    Selected
    => /\ args.environment.some => envs = args.environment.names
       /\ (~args.environment.some /\ args.all) =>
             /\ Len(envs) = Len(workspace.environments)
             /\ \A i \in 1..Len(envs) : envs[i] = workspace.environments[i].name
       /\ (~args.environment.some /\ ~args.all) => envs = <<"default">>
       /\ \A c \in 1..Len(updateCalls) :
             /\ Len(updateCalls[c]) = Len(envs)
             /\ \A i \in 1..Len(envs) :
                   workspace.environments[updateCalls[c][i]].name = envs[i]

C7_Witness ==
    /\ args.environment.some /\ args.all
    /\ Len(workspace.environments) = 3
    /\ envs = <<"prod", "prod">>
    /\ updateCalls = << <<3, 3>> >>

\* C10: the update operation is invoked at most once and only with every
\* selected name resolved; when some selected name does not resolve, the run
\* never invokes the update, reports nothing and ends in an error; a report
\* is printed only after the update returned success and names the
\* environments passed to the update, in order, duplicates kept.
C10_InstallOrdering ==
    /\ Len(updateCalls) <= 1
    /\ Len(reported) <= 1
    /\ updateCalls # <<>> =>
          /\ Selected
          /\ \A i \in 1..Len(envs) : Resolvable(envs[i])
          /\ updateCalls[1] = environments
          /\ Len(environments) = Len(envs)
    /\ (Selected /\ \E i \in 1..Len(envs) : ~Resolvable(envs[i])) =>
          /\ updateCalls = <<>>
          /\ reported = <<>>
          /\ result # "ok"
          /\ pc \in {"resolve", "resolve_failed"}
    /\ pc = "resolve_failed" => result = "err"
    /\ reported # <<>> =>
          /\ updateResult = "ok"
          /\ Len(updateCalls) = 1
          /\ Len(reported[1].names) = Len(updateCalls[1])
          /\ \A i \in 1..Len(updateCalls[1]) :
                reported[1].names[i] = workspace.environments[updateCalls[1][i]].name
    /\ result = "ok" => reported # <<>>

C10_Witness ==
    /\ pc = "resolve_failed"
    /\ Len(envs) = 2
    /\ Resolvable(envs[1]) /\ ~Resolvable(envs[2])
    /\ environments = <<2>>
    /\ updateCalls = <<>> /\ reported = <<>> /\ result = "err"

====
